---------------------------- MODULE Spec2Model ----------------------------
(***************************************************************************)
(* A model of boofuzz's IFuzzable (src/boofuzz/ifuzzable.py): the naming   *)
(* and hierarchy resolver (name, qualified_name, context_path), the legacy *)
(* stateful interface (mutant_index, mutate, reset) and the render/encode  *)
(* pipeline (render_mutated, get_child_data, encode).                      *)
(*                                                                         *)
(* Python values are tagged tuples, so that None, booleans, integers and   *)
(* strings stay distinct values that can be compared with each other.      *)
(***************************************************************************)
EXTENDS Integers, Sequences, FiniteSets, TLC

VARIABLES
    name_counter,   \* IFuzzable.name_counter, the class attribute
    elems,          \* the element objects: id -> attributes
    calls,          \* history: mutate() calls on an element since construction or reset()
    last,           \* history: the last operation, its receiver, argument and result
    threads         \* the calls of name in progress on concurrent threads

vars == <<name_counter, elems, calls, last, threads>>

-----------------------------------------------------------------------------
(* Bounds of the model *)

MaxElems == 2        \* element objects alive at a time
MaxMutations == 3    \* largest num_mutations() a variant reports
ExtraCalls == 2      \* mutate() calls followed beyond num_mutations()
MaxCounter == 12     \* name_counter values followed

Elems == 1..MaxElems

-----------------------------------------------------------------------------
(* Python values *)

None == <<"None">>
PyStr(s) == <<"str", s>>
PyInt(i) == <<"int", i>>
PyBool(b) == <<"bool", b>>
PyList(xs) == <<"list", xs>>
PyRaise(exc) == <<"raise", exc>>

\* No thread is inside a call
NoThreads == <<>>

IsStr(v) == v[1] = "str"
IsInt(v) == v[1] = "int"

\* Python truth value, as filter(None, ...) tests it
Truthy(v) ==
    CASE v = None -> FALSE
      [] IsStr(v) -> v[2] # ""
      [] IsInt(v) -> v[2] # 0
      [] v[1] = "bool" -> v[2]
      [] OTHER -> TRUE

\* str(int) for a non-negative integer, as "{1}".format(n) writes it
Digit(d) ==
    CASE d = 0 -> "0" [] d = 1 -> "1" [] d = 2 -> "2" [] d = 3 -> "3"
      [] d = 4 -> "4" [] d = 5 -> "5" [] d = 6 -> "6" [] d = 7 -> "7"
      [] d = 8 -> "8" [] d = 9 -> "9"

RECURSIVE Decimal(_)
Decimal(n) == IF n < 10 THEN Digit(n) ELSE Decimal(n \div 10) \o Digit(n % 10)

\* "{0}{1}".format(type(self).__name__, IFuzzable.name_counter)
Format(typeName, counter) == typeName \o Decimal(counter)


-----------------------------------------------------------------------------
(* Element objects *)

\* The variants (concrete classes) of the model, by type(self).__name__.
\* "Block" is a composite that overrides get_child_data and encode; the others
\* keep IFuzzable's defaults.
TypeNames == {"Block", "Int", "Int1"}
IsComposite(typeName) == typeName = "Block"

\* An element as its constructor leaves it: _name holds the name argument
\* (None when no name was given) and the _context_path attribute does not exist
\* yet (has_context_path models hasattr(self, '_context_path')).
NewElement(typeName, name_arg, children, n, value) ==
    [type |-> typeName,
     name_arg |-> name_arg,
     _name |-> name_arg,
     has_context_path |-> FALSE,
     _context_path |-> None,
     children |-> children,
     num_mutations |-> n,
     original_value |-> value,
     omits |-> {}]

\* The operations IFuzzable marks abstract
AbstractOps ==
    {"mutations", "original_value", "num_mutations", "render",
     "__repr__", "__len__", "__bool__"}

\* DocStringInheritor.__new__ for a class whose body leaves out the operations
\* in omits: the docstrings are copied and the class is built by type.__new__,
\* which, unlike abc.ABCMeta.__new__, collects no __abstractmethods__.
DocStringInheritor_new(typeName, omits) ==
    [__name__ |-> typeName, omits |-> omits, __abstractmethods__ |-> {}]

\* Calling the class: object.__new__ refuses a class whose __abstractmethods__
\* is not empty (ret is the exception, and no object exists), and builds the
\* object otherwise
Instantiate(cls, n) ==
    [ret |-> IF cls.__abstractmethods__ # {} THEN PyRaise("TypeError") ELSE None,
     obj |-> [NewElement(cls.__name__, None, <<>>, n, PyInt(7))
                 EXCEPT !.omits = cls.omits]]

\* The state the methods run on: the class attribute and the objects.
World == [name_counter |-> name_counter, elems |-> elems]

-----------------------------------------------------------------------------
(* Naming and hierarchy resolver *)

\* name with the test for an unset name lost: every read draws a new name
name_always_generates(w, e) ==
    LET counter == w.name_counter + 1
        generated == PyStr(Format(w.elems[e].type, counter))
    IN  [w |-> [name_counter |-> counter,
                elems |-> [w.elems EXCEPT ![e]._name = generated]],
         ret |-> generated]

\* name with the increment lost: the counter is formatted as it stands
name_no_increment(w, e) ==
    LET self == w.elems[e] IN
    IF self._name = None
    THEN LET generated == PyStr(Format(self.type, w.name_counter))
         IN  [w |-> [w EXCEPT !.elems[e]._name = generated], ret |-> generated]
    ELSE [w |-> w, ret |-> self._name]

\* IFuzzable.name (property getter)
name(w, e) ==
    LET self == w.elems[e] IN
    IF self._name = None
    THEN LET counter == w.name_counter + 1
             generated == PyStr(Format(self.type, counter))
         IN  [w |-> [name_counter |-> counter,
                     elems |-> [w.elems EXCEPT ![e]._name = generated]],
              ret |-> generated]
    ELSE [w |-> w, ret |-> self._name]

\* ".".join(segments) for a sequence of Python strings
RECURSIVE Join(_)
Join(segments) ==
    IF Len(segments) = 0 THEN ""
    ELSE IF Len(segments) = 1 THEN segments[1][2]
    ELSE segments[1][2] \o "." \o Join(Tail(segments))

\* qualified_name with the filter lost: only a None path is dropped
qualified_name_no_filter(w, e) ==
    LET w1 == IF ~w.elems[e].has_context_path
              THEN [w EXCEPT !.elems[e].has_context_path = TRUE,
                             !.elems[e]._context_path = None]
              ELSE w
        path == w1.elems[e]._context_path
        n == name(w1, e)
    IN  [w |-> n.w,
         ret |-> IF path = None THEN n.ret ELSE PyStr(Join(<<path, n.ret>>))]

\* IFuzzable.qualified_name (property getter)
qualified_name(w, e) ==
    LET w1 == IF ~w.elems[e].has_context_path
              THEN [w EXCEPT !.elems[e].has_context_path = TRUE,
                             !.elems[e]._context_path = None]
              ELSE w
        path == w1.elems[e]._context_path
        n == name(w1, e)
        segments == SelectSeq(<<path, n.ret>>, Truthy)
    IN  IF \E i \in 1..Len(segments) : ~IsStr(segments[i])
        THEN [w |-> n.w, ret |-> PyRaise("TypeError")]
        ELSE [w |-> n.w, ret |-> PyStr(Join(segments))]

\* IFuzzable.context_path (property getter)
context_path(w, e) ==
    IF w.elems[e].has_context_path
    THEN [w |-> w, ret |-> w.elems[e]._context_path]
    ELSE [w |-> w, ret |-> PyRaise("AttributeError")]

\* the setter refusing to replace a path that is already set
set_context_path_once(w, e, x) ==
    IF w.elems[e].has_context_path /\ w.elems[e]._context_path # None
    THEN [w |-> w, ret |-> None]
    ELSE [w |-> [w EXCEPT !.elems[e].has_context_path = TRUE,
                          !.elems[e]._context_path = x],
          ret |-> None]

\* IFuzzable.context_path (property setter)
set_context_path(w, e, x) ==
    [w |-> [w EXCEPT !.elems[e].has_context_path = TRUE,
                     !.elems[e]._context_path = x],
     ret |-> None]

-----------------------------------------------------------------------------
(* Legacy stateful interface *)

\* IFuzzable.mutant_index (property getter): a bare return
mutant_index(w, e) == [w |-> w, ret |-> None]

\* IFuzzable.mutate: a bare return
mutate(w, e) == [w |-> w, ret |-> None]

\* IFuzzable.reset: a bare return
reset(w, e) == [w |-> w, ret |-> None]

\* num_mutations() is abstract: the count the variant reports, and the base
\* body (a bare return) for a variant that leaves it out
num_mutations(w, e) ==
    IF "num_mutations" \in w.elems[e].omits
    THEN [w |-> w, ret |-> None]
    ELSE [w |-> w, ret |-> PyInt(w.elems[e].num_mutations)]

\* original_value is abstract: the value the variant was built with, and the
\* base body (a bare return) for a variant that leaves it out
original_value(w, e) ==
    IF "original_value" \in w.elems[e].omits
    THEN [w |-> w, ret |-> None]
    ELSE [w |-> w, ret |-> w.elems[e].original_value]

\* len(list(E.mutations)): the variant's generator yields num_mutations items;
\* the base body returns None, which list() cannot iterate
exhaust_mutations(w, e) ==
    IF "mutations" \in w.elems[e].omits
    THEN [w |-> w, ret |-> PyRaise("TypeError")]
    ELSE [w |-> w, ret |-> PyInt(w.elems[e].num_mutations)]

\* The other abstract operations, as a variant implements them
implemented(w, e, op) ==
    CASE op = "mutations" -> <<"generator", w.elems[e].num_mutations>>
      [] op = "original_value" -> original_value(w, e).ret
      [] op = "num_mutations" -> num_mutations(w, e).ret
      [] op = "render" -> <<"bytes", w.elems[e].original_value, None>>
      [] op = "__repr__" -> PyStr("<" \o w.elems[e].type \o ">")
      [] op = "__len__" -> PyInt(1)
      [] op = "__bool__" -> PyBool(TRUE)

\* Invoking an abstract operation: the variant's override, or IFuzzable's own
\* body (a bare return) when the variant has none
invoke(w, e, op) ==
    IF op \in w.elems[e].omits
    THEN [w |-> w, ret |-> None]
    ELSE [w |-> w, ret |-> implemented(w, e, op)]

-----------------------------------------------------------------------------
(* Render/encode pipeline *)

\* A Mutation object: mutation.mutations maps qualified names to replacements
Mutation(mapping) == [mutations |-> mapping]
EmptyMapping == [k \in {} |-> None]

\* IFuzzable.encode: the identity on value
IFuzzable_encode(w, e, value, child_data) == value

\* IFuzzable.get_child_data: no data
IFuzzable_get_child_data(w, e, mutation) ==
    [w |-> w, ret |-> None, mutation |-> mutation]

\* A composite's encode: a serialization that depends on the value and on the
\* rendered children
Block_encode(w, e, value, child_data) == <<"bytes", value, child_data>>

\* self.encode(...), dispatched on the variant
encode(w, e, value, child_data) ==
    IF IsComposite(w.elems[e].type)
    THEN Block_encode(w, e, value, child_data)
    ELSE IFuzzable_encode(w, e, value, child_data)

RECURSIVE render_mutated(_, _, _)
RECURSIVE Block_get_child_data(_, _, _)
RECURSIVE RenderChildren(_, _, _)

\* self.get_child_data(mutation=mutation), dispatched on the variant
get_child_data(w, e, mutation) ==
    IF IsComposite(w.elems[e].type)
    THEN Block_get_child_data(w, e, mutation)
    ELSE IFuzzable_get_child_data(w, e, mutation)

\* render_mutated looking the element up by its bare name
render_mutated_by_name(w, e, mutation) ==
    LET child_data == get_child_data(w, e, mutation)
        q == qualified_name(child_data.w, e)
        key == q.w.elems[e]._name[2]
    IN  IF key \in DOMAIN mutation.mutations
        THEN [w |-> q.w, mutation |-> child_data.mutation,
              ret |-> encode(q.w, e, mutation.mutations[key], child_data.ret)]
        ELSE [w |-> q.w, mutation |-> child_data.mutation,
              ret |-> encode(q.w, e, original_value(q.w, e).ret, child_data.ret)]

\* render_mutated testing the mapping for emptiness instead of membership
render_mutated_any_key(w, e, mutation) ==
    LET child_data == get_child_data(w, e, mutation)
        q == qualified_name(child_data.w, e)
    IN  IF DOMAIN mutation.mutations # {}
        THEN [w |-> q.w, mutation |-> child_data.mutation,
              ret |-> IF q.ret[2] \in DOMAIN mutation.mutations
                      THEN encode(q.w, e, mutation.mutations[q.ret[2]], child_data.ret)
                      ELSE PyRaise("KeyError")]
        ELSE [w |-> q.w, mutation |-> child_data.mutation,
              ret |-> encode(q.w, e, original_value(q.w, e).ret, child_data.ret)]

\* render_mutated taking the replacement out of the mapping (dict.pop)
render_mutated_pops_key(w, e, mutation) ==
    LET child_data == get_child_data(w, e, mutation)
        m == child_data.mutation
        q == qualified_name(child_data.w, e)
    IN  IF ~IsStr(q.ret)
        THEN [w |-> q.w, ret |-> q.ret, mutation |-> m]
        ELSE IF q.ret[2] \in DOMAIN m.mutations
        THEN [w |-> q.w,
              mutation |-> Mutation([k \in DOMAIN m.mutations \ {q.ret[2]}
                                        |-> m.mutations[k]]),
              ret |-> encode(q.w, e, m.mutations[q.ret[2]], child_data.ret)]
        ELSE [w |-> q.w, mutation |-> m,
              ret |-> encode(q.w, e, original_value(q.w, e).ret, child_data.ret)]

\* render_mutated resolving its own qualified_name before get_child_data
render_mutated_name_first(w, e, mutation) ==
    LET q == qualified_name(w, e)
        child_data == get_child_data(q.w, e, mutation)
        m == child_data.mutation
    IN  IF ~IsStr(q.ret)
        THEN [w |-> child_data.w, ret |-> q.ret, mutation |-> m]
        ELSE IF q.ret[2] \in DOMAIN m.mutations
        THEN [w |-> child_data.w, mutation |-> m,
              ret |-> encode(child_data.w, e, m.mutations[q.ret[2]], child_data.ret)]
        ELSE [w |-> child_data.w, mutation |-> m,
              ret |-> encode(child_data.w, e, original_value(child_data.w, e).ret,
                             child_data.ret)]

\* IFuzzable.render_mutated. The Mutation is an object the caller shares with
\* the call: the result carries it as the call leaves it.
render_mutated(w, e, mutation) ==
    LET child_data == get_child_data(w, e, mutation)
        m == child_data.mutation
        q == qualified_name(child_data.w, e)
    IN  IF ~IsStr(q.ret)    \* the exception propagates
        THEN [w |-> q.w, ret |-> q.ret, mutation |-> m]
        ELSE IF q.ret[2] \in DOMAIN m.mutations
        THEN [w |-> q.w, mutation |-> m,
              ret |-> encode(q.w, e, m.mutations[q.ret[2]], child_data.ret)]
        ELSE [w |-> q.w, mutation |-> m,
              ret |-> encode(q.w, e, original_value(q.w, e).ret, child_data.ret)]

\* The children of a composite rendered in order, each under the same mutation
RenderChildren(w, children, mutation) ==
    IF children = <<>> THEN [w |-> w, ret |-> <<>>, mutation |-> mutation]
    ELSE LET first == render_mutated(w, Head(children), mutation)
             rest == RenderChildren(first.w, Tail(children), first.mutation)
         IN  [w |-> rest.w, ret |-> <<first.ret>> \o rest.ret,
              mutation |-> rest.mutation]

\* A composite's get_child_data: the rendered children
Block_get_child_data(w, e, mutation) ==
    LET rendered == RenderChildren(w, w.elems[e].children, mutation)
    IN  [w |-> rendered.w, ret |-> PyList(rendered.ret),
         mutation |-> rendered.mutation]

-----------------------------------------------------------------------------
(* Inputs *)

\* Name arguments a constructor is given: none, a name, the empty string
NameArgs == {None, PyStr("len"), PyStr("")}

\* Values assigned to context_path
ContextPaths == {None, PyStr(""), PyStr("header")}

\* The setter takes any object: the paths and a value that is no string
AnyValues == ContextPaths \cup {PyInt(5)}

OriginalValues == {PyInt(7)}
Replacements == {PyInt(9999)}

\* The elements of a set of ids in increasing order
RECURSIVE Ascending(_)
Ascending(S) ==
    IF S = {} THEN <<>>
    ELSE LET m == CHOOSE x \in S : \A y \in S : x <= y
         IN  <<m>> \o Ascending(S \ {m})

\* The children a composite built in slot e may hold: elements of later slots
ChildLists(e, typeName) ==
    IF IsComposite(typeName)
    THEN {Ascending(K) : K \in SUBSET {c \in Elems : c > e}}
    ELSE {<<>>}

\* The elements a constructor call can leave in slot e
NewElements(e, types, nameArgs, counts) ==
    UNION {{NewElement(t, a, ch, n, v) : ch \in ChildLists(e, t), v \in OriginalValues}
           : <<t, a, n>> \in types \X nameArgs \X counts}

\* The keys a caller puts in a mutation: the qualified names the elements would
\* report now and the scenario's "header.len"
MutationKeys ==
    {q[2] : q \in {r \in {qualified_name(World, e).ret : e \in Elems} : IsStr(r)}}
        \cup {"header.len"}

Mappings == UNION {[K -> Replacements] : K \in SUBSET MutationKeys}

NoCall ==
    [op |-> "init", e |-> 0, value |-> None, mutation |-> EmptyMapping,
     mutation_after |-> EmptyMapping, ret |-> None]

-----------------------------------------------------------------------------
(* Operations *)

\* The effect of a call that returned r on the state
Returns(op, e, value, mapping, r) ==
    /\ r.w.name_counter <= MaxCounter
    /\ name_counter' = r.w.name_counter
    /\ elems' = r.w.elems
    /\ last' = [op |-> op, e |-> e, value |-> value, mutation |-> mapping,
                mutation_after |-> IF "mutation" \in DOMAIN r
                                   THEN r.mutation.mutations ELSE mapping,
                ret |-> r.ret]
    /\ UNCHANGED threads

Construct(e, typeName, name_arg) ==
    /\ elems' = [elems EXCEPT ![e] =
                    NewElement(typeName, name_arg, <<>>, 0, PyInt(7))]
    /\ calls' = [calls EXCEPT ![e] = 0]
    /\ last' = [op |-> "construct", e |-> e, value |-> name_arg,
                mutation |-> EmptyMapping, mutation_after |-> EmptyMapping,
                ret |-> None]
    /\ UNCHANGED <<name_counter, threads>>

\* class V(IFuzzable) with a body that leaves out the operations in omits,
\* followed by V(); the new object takes the place and the count of e
ConstructVariant(e, omits) ==
    LET cls == DocStringInheritor_new("Int", omits)
        n == elems[e].num_mutations
        new == Instantiate(cls, n)
    IN  /\ elems' = IF new.ret # None THEN elems
                    ELSE [elems EXCEPT ![e] = new.obj]
        /\ calls' = [calls EXCEPT ![e] = 0]
        /\ last' = [op |-> "construct", e |-> e, value |-> PyInt(n),
                    mutation |-> EmptyMapping, mutation_after |-> EmptyMapping,
                    ret |-> new.ret]
        /\ UNCHANGED <<name_counter, threads>>

Invoke(e, op) ==
    /\ Returns(op, e, None, EmptyMapping, invoke(World, e, op))
    /\ UNCHANGED calls

ExhaustMutations(e) ==
    /\ Returns("list(mutations)", e, None, EmptyMapping, exhaust_mutations(World, e))
    /\ UNCHANGED calls

ReadName(e) ==
    /\ Returns("name", e, None, EmptyMapping, name(World, e))
    /\ UNCHANGED calls

ReadQualifiedName(e) ==
    /\ Returns("qualified_name", e, None, EmptyMapping, qualified_name(World, e))
    /\ UNCHANGED calls

ReadContextPath(e) ==
    /\ Returns("context_path", e, None, EmptyMapping, context_path(World, e))
    /\ UNCHANGED calls

SetContextPath(e, x) ==
    /\ Returns("context_path=", e, x, EmptyMapping, set_context_path(World, e, x))
    /\ UNCHANGED calls

RenderMutated(e, mapping) ==
    /\ Returns("render_mutated", e, None, mapping,
               render_mutated(World, e, Mutation(mapping)))
    /\ UNCHANGED calls

ReadMutantIndex(e) ==
    /\ Returns("mutant_index", e, None, EmptyMapping, mutant_index(World, e))
    /\ UNCHANGED calls

Mutate(e) ==
    /\ calls[e] < elems[e].num_mutations + ExtraCalls
    /\ Returns("mutate", e, None, EmptyMapping, mutate(World, e))
    /\ calls' = [calls EXCEPT ![e] = @ + 1]

Reset(e) ==
    /\ Returns("reset", e, None, EmptyMapping, reset(World, e))
    /\ calls' = [calls EXCEPT ![e] = 0]

-----------------------------------------------------------------------------
(* Specifications *)

InitWith(types, nameArgs, counts) ==
    /\ name_counter = 0
    /\ elems \in {f \in [Elems -> UNION {NewElements(e, types, nameArgs, counts) : e \in Elems}] :
                    \A e \in Elems : f[e] \in NewElements(e, types, nameArgs, counts)}
    /\ calls = [e \in Elems |-> 0]
    /\ last = NoCall
    /\ threads = NoThreads

\* Every operation, on a small hierarchy
Init == InitWith({"Block", "Int"}, {None, PyStr("len")}, {0})

Next ==
    \E e \in Elems :
        \/ ReadName(e)
        \/ ReadQualifiedName(e)
        \/ ReadContextPath(e)
        \/ \E x \in AnyValues : SetContextPath(e, x)
        \/ \E mapping \in Mappings : RenderMutated(e, mapping)
        \/ ReadMutantIndex(e)
        \/ Mutate(e)
        \/ Reset(e)

Spec == Init /\ [][Next]_vars

\* Naming and rendering over every name argument
RenderInit == InitWith({"Block", "Int"}, NameArgs, {0})

RenderNext ==
    \E e \in Elems :
        \/ ReadName(e)
        \/ ReadQualifiedName(e)
        \/ \E x \in ContextPaths : SetContextPath(e, x)
        \/ \E mapping \in Mappings : RenderMutated(e, mapping)

RenderSpec == RenderInit /\ [][RenderNext]_vars

\* The legacy interface over every mutation count
LegacyInit == InitWith({"Int"}, {None}, 0..MaxMutations)

LegacyNext ==
    \E e \in Elems :
        \/ ReadMutantIndex(e)
        \/ Mutate(e)
        \/ Reset(e)

LegacySpec == LegacyInit /\ [][LegacyNext]_vars

\* Variants defined with and without their abstract operations
Omissions == {{}} \cup {{op} : op \in AbstractOps}

DefinitionInit == InitWith({"Int"}, {None}, {0, MaxMutations})

DefinitionNext ==
    \E e \in Elems :
        \/ \E omits \in Omissions : ConstructVariant(e, omits)
        \/ \E op \in AbstractOps : Invoke(e, op)
        \/ ExhaustMutations(e)
        \/ Mutate(e)
        \/ Reset(e)

DefinitionSpec == DefinitionInit /\ [][DefinitionNext]_vars

-----------------------------------------------------------------------------
(* Concurrent reads of name: the getter step by step *)

\* Two callers, each reading name once
Threads == {1, 2}

\* A caller before its call. loaded and formatted are the getter's temporaries;
\* crossed records that another caller stored the counter between this
\* caller's load of the counter and its read of the counter for the format;
\* after_store records that this caller's test ran after another caller's
\* read of the same element had stored the name or found it set.
Idle ==
    [pc |-> "idle", e |-> 0, loaded |-> 0, formatted |-> "", ret |-> None,
     crossed |-> FALSE, after_store |-> FALSE]

\* the test replaced by one that always finds the name unset
name_is_unset_always(self) == TRUE

\* if self._name is None
name_is_unset(self) == self._name = None

\* the increment storing back the value it loaded
name_counter_add_lost(loaded) == loaded

\* IFuzzable.name_counter += 1, the value stored back
name_counter_add(loaded) == loaded + 1

NameCall(t, e) ==
    /\ threads[t].pc = "idle"
    /\ threads' = [threads EXCEPT ![t].pc = "test", ![t].e = e]
    /\ UNCHANGED <<name_counter, elems, calls, last>>

NameTest(t) ==
    /\ threads[t].pc = "test"
    /\ threads' = [threads EXCEPT
          ![t].pc = IF name_is_unset(elems[threads[t].e]) THEN "load" ELSE "return",
          ![t].after_store = \E u \in Threads \ {t} :
                                /\ threads[u].e = threads[t].e
                                /\ threads[u].pc \in {"return", "done"}]
    /\ UNCHANGED <<name_counter, elems, calls, last>>

NameLoad(t) ==
    /\ threads[t].pc = "load"
    /\ threads' = [threads EXCEPT ![t].pc = "store", ![t].loaded = name_counter]
    /\ UNCHANGED <<name_counter, elems, calls, last>>

NameStore(t) ==
    /\ threads[t].pc = "store"
    /\ name_counter' = name_counter_add(threads[t].loaded)
    /\ threads' = [u \in Threads |->
          IF u = t THEN [threads[u] EXCEPT !.pc = "format"]
          ELSE IF threads[u].pc \in {"store", "format"}
          THEN [threads[u] EXCEPT !.crossed = TRUE]
          ELSE threads[u]]
    /\ UNCHANGED <<elems, calls, last>>

NameFormat(t) ==
    /\ threads[t].pc = "format"
    /\ threads' = [threads EXCEPT
          ![t].pc = "assign",
          ![t].formatted = Format(elems[threads[t].e].type, name_counter)]
    /\ UNCHANGED <<name_counter, elems, calls, last>>

NameAssign(t) ==
    /\ threads[t].pc = "assign"
    /\ elems' = [elems EXCEPT ![threads[t].e]._name = PyStr(threads[t].formatted)]
    /\ threads' = [threads EXCEPT ![t].pc = "return"]
    /\ UNCHANGED <<name_counter, calls, last>>

NameReturn(t) ==
    /\ threads[t].pc = "return"
    /\ threads' = [threads EXCEPT ![t].pc = "done",
                                  ![t].ret = elems[threads[t].e]._name]
    /\ UNCHANGED <<name_counter, elems, calls, last>>

\* A read of name after both callers have returned
LaterRead(e) ==
    /\ \A t \in Threads : threads[t].pc = "done"
    /\ ReadName(e)

ConcurrentInit ==
    /\ name_counter = 0
    /\ elems \in [Elems -> {NewElement("Int", a, <<>>, 0, PyInt(7)) : a \in {None, PyStr("len")}}]
    /\ calls = [e \in Elems |-> 0]
    /\ last = NoCall
    /\ threads = [t \in Threads |-> Idle]

ConcurrentNext ==
    \/ \E t \in Threads :
          \/ \E e \in Elems : NameCall(t, e)
          \/ NameTest(t)
          \/ NameLoad(t)
          \/ NameStore(t)
          \/ NameFormat(t)
          \/ NameAssign(t)
          \/ NameReturn(t)
    \/ \E e \in Elems : LaterRead(e)

ConcurrentSpec == ConcurrentInit /\ [][ConcurrentNext]_vars

\* Naming alone, with elements built and dropped while the counter runs on
NamingInit == InitWith({"Int", "Int1"}, {None}, {0})

NamingNext ==
    \E e \in Elems :
        \/ \E t \in {"Int", "Int1"}, a \in {None, PyStr("len")} : Construct(e, t, a)
        \/ ReadName(e)

NamingSpec == NamingInit /\ [][NamingNext]_vars

-----------------------------------------------------------------------------
(* Legacy interface: C1 - C4 *)

\* C1: on an element that starts Unmutated with num_mutations() = N, the k-th
\* mutate() call returns True and leaves mutant_index = k for every k <= N, and
\* call N + 1 returns False (True, True, True, False for N = 3).
C1_MutateSequence ==
    last.op = "mutate" =>
        LET e == last.e
            n == num_mutations(World, e).ret[2]
            k == calls[e]
        IN  /\ k <= n => /\ last.ret = PyBool(TRUE)
                         /\ mutant_index(World, e).ret = PyInt(k)
            /\ k = n + 1 => last.ret = PyBool(FALSE)

\* C2: once an element is Exhausted (more than num_mutations() calls of mutate()
\* since construction or reset()), every further mutate() returns False and
\* leaves mutant_index unchanged.
C2_ExhaustedStays ==
    [][\A e \in Elems :
          (/\ calls[e] > num_mutations(World, e).ret[2]
           /\ calls'[e] = calls[e] + 1)
          => /\ last'.ret = PyBool(FALSE)
             /\ mutant_index(World, e)'.ret = mutant_index(World, e).ret]_vars

\* C3: from every legacy state reset() raises nothing and leaves the element
\* Unmutated, mutant_index = 0.
C3_ResetUnmutated ==
    last.op = "reset" =>
        /\ last.ret[1] # "raise"
        /\ mutant_index(World, last.e).ret = PyInt(0)

\* C4: mutant_index is always an integer, and it is 0 exactly when no mutation
\* is active (no mutate() since construction or reset()).
C4_IndexIsInteger ==
    last.op = "mutant_index" =>
        /\ IsInt(last.ret)
        /\ last.ret = PyInt(0) <=> calls[last.e] = 0

-----------------------------------------------------------------------------
(* Render/encode pipeline: C5, C6 *)

\* The qualified name of a named element, as a string
QName(e) == qualified_name(World, e).ret[2]

\* C5: render_mutated(mutation) returns encode(v, child_data), child_data the
\* result of get_child_data(mutation) and v the replacement mapped to the
\* element's qualified_name when that is a key of the mapping, original_value
\* otherwise; "len" under "header" renders 9999 for {"header.len": 9999} and its
\* original value for {}.
C5_RenderMutated ==
    last.op = "render_mutated" =>
        LET e == last.e
            child_data == get_child_data(World, e, Mutation(last.mutation)).ret
            v == IF QName(e) \in DOMAIN last.mutation
                 THEN last.mutation[QName(e)]
                 ELSE elems[e].original_value
        IN  /\ last.ret = encode(World, e, v, child_data)
            /\ (/\ ~IsComposite(elems[e].type)
                /\ elems[e]._name = PyStr("len")
                /\ elems[e]._context_path = PyStr("header"))
               => /\ last.mutation = [k \in {"header.len"} |-> PyInt(9999)]
                        => last.ret = PyInt(9999)
                  /\ last.mutation = EmptyMapping
                        => last.ret = elems[e].original_value

C5_Witness ==
    /\ last.op = "render_mutated"
    /\ elems[last.e]._name = PyStr("len")
    /\ elems[last.e]._context_path = PyStr("header")
    /\ "header.len" \in DOMAIN last.mutation
    /\ last.ret = PyInt(9999)

\* The element and everything its get_child_data renders
RECURSIVE Subtree(_)
Subtree(e) ==
    {e} \cup UNION {Subtree(elems[e].children[i]) : i \in 1..Len(elems[e].children)}

\* C6 as stated: for every element, composites included, a mutation whose
\* mapping omits the element's qualified_name renders as the empty mapping does.
C6_OmittedKeyOriginal ==
    (last.op = "render_mutated" /\ QName(last.e) \notin DOMAIN last.mutation)
        => last.ret = render_mutated(World, last.e, Mutation(EmptyMapping)).ret

\* C6 (amended): a mutation whose mapping omits the qualified names of the
\* element and of every element its get_child_data renders, whatever other keys
\* it contains, renders as the empty mapping does.
C6_OmittedKey ==
    (/\ last.op = "render_mutated"
     /\ \A d \in Subtree(last.e) : QName(d) \notin DOMAIN last.mutation)
        => last.ret = render_mutated(World, last.e, Mutation(EmptyMapping)).ret

C6_Witness ==
    /\ last.op = "render_mutated"
    /\ elems[last.e].children # <<>>
    /\ DOMAIN last.mutation # {}
    /\ \A d \in Subtree(last.e) : QName(d) \notin DOMAIN last.mutation

-----------------------------------------------------------------------------
(* Naming: C7 - C10 *)

\* C7 as stated: qualified_name is name when context_path is None or "", and
\* context_path + "." + name otherwise, for every name.
C7_QualifiedNameOriginal ==
    last.op = "qualified_name" =>
        LET self == elems[last.e] IN
        last.ret = IF self._context_path \in {None, PyStr("")}
                   THEN self._name
                   ELSE PyStr(self._context_path[2] \o "." \o self._name[2])

\* C7 (amended): the same for every non-empty name; with the empty string as
\* name and a non-empty context_path, qualified_name is context_path alone.
C7_QualifiedName ==
    last.op = "qualified_name" =>
        LET self == elems[last.e] IN
        last.ret = IF self._context_path \in {None, PyStr("")}
                   THEN self._name
                   ELSE IF self._name = PyStr("")
                   THEN self._context_path
                   ELSE PyStr(self._context_path[2] \o "." \o self._name[2])

C7_Witness ==
    /\ last.op = "qualified_name"
    /\ elems[last.e].name_arg = None
    /\ elems[last.e]._context_path = PyStr("header")
    /\ last.ret = PyStr("header." \o elems[last.e]._name[2])

\* An element whose name was drawn from the counter
AutoNamed(self) == self.name_arg = None /\ self._name # None

\* The counter value an auto-generated name carries (0 when there is none)
CounterOf(self, counter) ==
    IF \E c \in 1..counter : self._name = PyStr(Format(self.type, c))
    THEN CHOOSE c \in 1..counter : self._name = PyStr(Format(self.type, c))
    ELSE 0

\* C8: once an element has a name, every later read of name returns that same
\* string, whatever operation came in between.
C8_NameStable ==
    [][\A e \in Elems :
          elems[e]._name # None
          => /\ elems'[e]._name = elems[e]._name
             /\ name(World', e).ret = name(World, e).ret
             /\ (last'.op = "name" /\ last'.e = e) => last'.ret = elems[e]._name]_vars

C8_Witness ==
    /\ last.op = "name"
    /\ elems[last.e].name_arg = None
    /\ CounterOf(elems[last.e], name_counter) \in 1..(name_counter - 1)
    /\ last.ret = elems[last.e]._name

\* C9: when an unnamed element's name is first read after that of another
\* auto-named element of the same variant, the two names differ and the later
\* one carries the strictly larger counter value.
C9_SequentialDistinct ==
    [][\A e2 \in Elems :
          (/\ elems[e2]._name = None
           /\ elems'[e2].name_arg = None
           /\ elems'[e2]._name # None)
          => \A e1 \in Elems \ {e2} :
                (AutoNamed(elems[e1]) /\ elems[e1].type = elems[e2].type)
                => /\ elems'[e2]._name # elems[e1]._name
                   /\ CounterOf(elems'[e2], name_counter')
                        > CounterOf(elems[e1], name_counter)]_vars

C9_Witness ==
    \E e1, e2 \in Elems :
        /\ e1 # e2
        /\ AutoNamed(elems[e1]) /\ AutoNamed(elems[e2])
        /\ elems[e1].type = elems[e2].type
        /\ last.op = "name" /\ last.e = e2
        /\ CounterOf(elems[e1], name_counter) >= 1
        /\ CounterOf(elems[e2], name_counter) = CounterOf(elems[e1], name_counter) + 1

\* C10: the auto-generated names of any two distinct elements differ, whatever
\* their type names.
C10_AutoNamesDistinct ==
    \A e1, e2 \in Elems :
        (e1 # e2 /\ AutoNamed(elems[e1]) /\ AutoNamed(elems[e2]))
        => elems[e1]._name # elems[e2]._name

-----------------------------------------------------------------------------
(* Counter, mutation and context path: C11, C14 - C17 *)

\* The elements whose name a step draws from the counter
Drawn == {e \in Elems : elems[e]._name = None /\ elems'[e]._name # None}

\* C11: the counter starts at 0 and never decreases: a step adds one for each
\* element whose unset name it reads for the first time (through name,
\* qualified_name or render_mutated), and every other operation leaves it alone.
C11_CounterFrame ==
    /\ name_counter = 0
    /\ [][/\ name_counter' = name_counter + Cardinality(Drawn)
          /\ last'.op \notin {"name", "qualified_name", "render_mutated"}
                => name_counter' = name_counter]_vars

C11_Witness ==
    /\ last.op = "qualified_name"
    /\ AutoNamed(elems[last.e])
    /\ name_counter = 2
    /\ CounterOf(elems[last.e], name_counter) = 2

\* C14: render_mutated only reads the Mutation it is given: the mapping is the
\* same after the call as before it.
C14_MutationUnchanged ==
    last.op = "render_mutated" => last.mutation_after = last.mutation

C14_Witness ==
    /\ last.op = "render_mutated"
    /\ IsStr(qualified_name(World, last.e).ret)
    /\ QName(last.e) \in DOMAIN last.mutation
    /\ Cardinality(DOMAIN last.mutation) = 2
    /\ last.mutation_after = last.mutation

\* A step that renders the unnamed composite p for the first time while its
\* child c is unnamed too
FirstRender(p, c) ==
    /\ last'.op = "render_mutated" /\ last'.e = p
    /\ \E i \in 1..Len(elems[p].children) : elems[p].children[i] = c
    /\ elems[p]._name = None /\ elems'[p]._name # None
    /\ elems[c]._name = None /\ elems'[c]._name # None

\* C15 as stated: render_mutated resolves its own qualified_name before it
\* calls get_child_data, so a parent first rendered with unnamed children
\* carries a smaller counter value than every child.
C15_ParentFirstOriginal ==
    [][\A p, c \in Elems :
          FirstRender(p, c)
          => CounterOf(elems'[p], name_counter') < CounterOf(elems'[c], name_counter')]_vars

\* C15 (amended): render_mutated calls get_child_data before it resolves its
\* own qualified_name, so the parent carries a larger counter value than every
\* child.
C15_ChildrenFirst ==
    [][\A p, c \in Elems :
          FirstRender(p, c)
          => CounterOf(elems'[p], name_counter') > CounterOf(elems'[c], name_counter')]_vars

C15_Witness ==
    /\ last.op = "render_mutated"
    /\ elems[last.e].children # <<>>
    /\ AutoNamed(elems[last.e])
    /\ CounterOf(elems[last.e], name_counter) = 2
    /\ \E i \in 1..Len(elems[last.e].children) :
          /\ AutoNamed(elems[elems[last.e].children[i]])
          /\ CounterOf(elems[elems[last.e].children[i]], name_counter) = 1

\* C16: reading context_path on an element that holds no path returns None
\* without error, whether or not qualified_name was read before.
C16_ContextPathReadable ==
    (last.op = "context_path" /\ elems[last.e]._context_path = None)
        => last.ret = None

\* qualified_name as the value x of context_path and the name determine it
QualifiedFrom(x, n) ==
    IF ~Truthy(x) THEN n
    ELSE IF ~IsStr(x) THEN PyRaise("TypeError")
    ELSE IF n = PyStr("") THEN x
    ELSE PyStr(x[2] \o "." \o n[2])

\* C17: an assignment to context_path takes any value without error and
\* overwrites the previous one: context_path reads back the assigned value,
\* qualified_name is computed from it, and the name and the counter are as before.
C17_AssignContextPath ==
    [][\A e \in Elems :
          (last'.op = "context_path=" /\ last'.e = e)
          => /\ last'.ret = None
             /\ context_path(World', e).ret = last'.value
             /\ qualified_name(World', e).ret
                    = QualifiedFrom(last'.value, name(World', e).ret)
             /\ elems'[e]._name = elems[e]._name
             /\ name_counter' = name_counter]_vars

C17_Witness ==
    /\ last.op = "context_path="
    /\ last.value = PyInt(5)
    /\ elems[last.e]._context_path = PyInt(5)
    /\ AutoNamed(elems[last.e])

-----------------------------------------------------------------------------
(* Abstract operations: C12, C13 *)

\* C12: a variant that omits an abstract operation is rejected when it is
\* defined or instantiated: no state is reached in which an element of such a
\* variant exists and the operation its variant omits has been invoked on it.
C12_DefinitionError ==
    last.op \in AbstractOps => last.op \notin elems[last.e].omits

\* C13: for every element, exhausting E.mutations once yields as many items
\* as E.num_mutations() reports, in every enumeration and legacy state.
C13_MutationsCount ==
    last.op = "list(mutations)" => last.ret = num_mutations(World, last.e).ret

-----------------------------------------------------------------------------
(* Concurrent first reads: C18, C19 *)

\* Both callers have returned from a first read of an element built unnamed
BothDone ==
    \A t \in Threads :
        /\ threads[t].pc = "done"
        /\ elems[threads[t].e].name_arg = None

Agreed(e) ==
    /\ threads[1].ret = threads[2].ret
    /\ threads[1].ret = elems[e]._name
    /\ name_counter = Cardinality({x \in Elems : AutoNamed(elems[x])})
    /\ (last.op = "name" /\ last.e = e) => last.ret = threads[1].ret

=============================================================================
